---------------------------- MODULE Spec2Model ----------------------------
(***************************************************************************)
(* Crime-report backend: session authentication, RBAC guard, report        *)
(* lifecycle, admin elevation workflow and audit trail.                    *)
(*                                                                         *)
(* The store is PostgreSQL reached through SQLAlchemy.  Every inbound      *)
(* request owns one AsyncSession (core/database.py get_db).  A handler is  *)
(* a sequence of awaited statements; between two awaits other requests     *)
(* run.  One action of this module is one awaited statement of a handler,  *)
(* together with the synchronous Python code that follows it up to the     *)
(* next await:                                                             *)
(*   - a SELECT reads the committed rows at that moment (READ COMMITTED)   *)
(*     and keeps the loaded values in the request's own objects;           *)
(*   - db.commit() flushes the request's pending INSERTs and UPDATEs and   *)
(*     commits them.  The unit of work emits an UPDATE only for the        *)
(*     attributes whose value differs from the value that was loaded.      *)
(* A request may stop at any await (store unavailable, worker killed);     *)
(* what it has committed stays, what it has not is discarded.              *)
(***************************************************************************)
EXTENDS Integers, Sequences, FiniteSets, TLC

(* ------------------------------ bounds -------------------------------- *)
\* concurrent requests in flight
MaxProcs == 2
\* admin_requests rows
MaxReqs == 2
\* audit_logs rows written after the initial state
MaxAudit == 3
\* requests that stop at an await in one behaviour
MaxFaults == 1
\* clock advances in one behaviour
MaxTicks == 3
\* crime_reports rows
MaxReports == 1
\* report_status_history rows
MaxHistory == 3
\* sessions rows
MaxSessions == 4
\* writing requests accepted in one behaviour of the access-control specification
MaxAccessWrites == 1

Procs == 1..MaxProcs

(* --------------------------- enumerations ----------------------------- *)
\* models/user.py UserRole
UserRole == {"USER", "ADMIN", "SUPER_ADMIN"}
\* models/admin_request.py AdminRequestStatus
AdminRequestStatus == {"PENDING", "APPROVED", "REJECTED"}
\* models/crime_report.py ReportStatus
ReportStatus == {"NEW", "ASSIGNED", "INVESTIGATING", "RESOLVED", "CLOSED"}
\* models/crime_report.py ReportPriority
ReportPriority == {"LOW", "MEDIUM", "HIGH", "CRITICAL"}
\* core/config.py SESSION_EXPIRY_HOURS
SESSION_EXPIRY_HOURS == 24

\* the value of a nullable column that holds NULL
Null == "NULL"
\* a nullable id column that holds NULL; no path parameter (ids start at 1)
NoId == 0

VARIABLES
    users,      \* table users:          id -> row
    sessions,   \* table sessions:       session_token -> row
    requests,   \* table admin_requests: id -> row
    reports,    \* table crime_reports:  id -> row
    history,    \* table report_status_history, in insertion order
    audit,      \* table audit_logs, in insertion order
    now,        \* the clock (hours)
    faults,     \* requests that stopped at an await so far
    issued,     \* history: the login responses sent, session_token -> the user returned
    loggedOut,  \* history: the tokens whose logout has committed
    statusCalls,\* history: per report, the update_report_status calls that committed
    pc,         \* per request slot: the statement the handler is at
    rq          \* per request slot: inputs and the objects the handler holds

vars == <<users, sessions, requests, reports, history, audit, now, faults, issued, loggedOut, statusCalls, pc, rq>>
ghost == <<issued, loggedOut, statusCalls>>
env == <<now, faults, ghost>>
db == <<users, sessions, requests, reports, history, audit>>

(* -------------------- the request in a slot --------------------------- *)
Blank ==
    [op |-> "", hdr |-> "none", token |-> NoId, target |-> NoId, val |-> "",
     email |-> "", password |-> "",
     actor |-> NoId, arole |-> "", ldst |-> "", ldrole |-> "", ldlock |-> FALSE,
     lduser |-> NoId, ldexp |-> 0, res |-> NoId, result |-> "", body |-> <<>>]

\* A finished request keeps what the response and the log line show.
Finished(r, code) ==
    [Blank EXCEPT !.op = r.op, !.target = r.target, !.result = code]

Respond(p, code) ==
    /\ pc' = [pc EXCEPT ![p] = "done"]
    /\ rq' = [rq EXCEPT ![p] = Finished(rq[p], code)]

\* A 200 response to a read: the record returned, as <<field, value>> pairs.
Reply(p, id, body) ==
    /\ pc' = [pc EXCEPT ![p] = "done"]
    /\ rq' = [rq EXCEPT ![p] = [Finished(rq[p], "ok") EXCEPT !.res = id, !.body = body]]

Goto(p, label, r) ==
    /\ pc' = [pc EXCEPT ![p] = label]
    /\ rq' = [rq EXCEPT ![p] = r]

NextId(table) == Cardinality(DOMAIN table) + 1

(* ------------------------- initial state ------------------------------ *)
\* After seed_superadmin.py created the super admin (user 1), two citizens
\* registered (users 2, 3) and each of the three logged in once.
UserRow(email, role) ==
    [email |-> email, password_hash |-> <<"bcrypt", "secret">>, role |-> role,
     is_active |-> TRUE, is_locked |-> FALSE]

SessionRow(u, t) == [user_id |-> u, expires_at |-> t + SESSION_EXPIRY_HOURS, is_valid |-> TRUE]

AuditRow(actor, action, resource) ==
    [actor_id |-> actor, action |-> action, resource_id |-> resource]

InitAudit ==
    << AuditRow(2, "USER_REGISTERED", 2), AuditRow(3, "USER_REGISTERED", 3),
       AuditRow(1, "USER_LOGIN", 1), AuditRow(2, "USER_LOGIN", 2), AuditRow(3, "USER_LOGIN", 3) >>

Init ==
    /\ users = (1 :> UserRow("admin@example.com", "SUPER_ADMIN"))
            @@ (2 :> UserRow("alice@x.com", "USER"))
            @@ (3 :> UserRow("bob@x.com", "USER"))
    /\ sessions = (1 :> SessionRow(1, 0)) @@ (2 :> SessionRow(2, 0)) @@ (3 :> SessionRow(3, 0))
    /\ requests = <<>>
    /\ reports = <<>>
    /\ history = <<>>
    /\ audit = InitAudit
    /\ now = 0
    /\ faults = 0
    /\ issued = (1 :> 1) @@ (2 :> 2) @@ (3 :> 3)
    /\ loggedOut = {}
    /\ statusCalls = <<>>
    /\ pc = [p \in Procs |-> "idle"]
    /\ rq = [p \in Procs |-> Blank]

(* ------------------ dependencies/auth.py: the guard ------------------- *)
\* Variant of RequiredRoles: the report routes depend on get_current_user only.
RequiredRolesReportsOpen(op) ==
    CASE op \in {"approve", "reject", "revoke", "lock", "unlock"} -> {"SUPER_ADMIN"}
      [] OTHER -> UserRole

\* The role set each route's dependency requires.
RequiredRoles(op) ==
    CASE op \in {"approve", "reject", "revoke", "lock", "unlock"} -> {"SUPER_ADMIN"}
      [] op \in {"set_status", "set_priority", "set_notes", "soft_delete"} -> {"ADMIN", "SUPER_ADMIN"}
      [] OTHER -> UserRole

\* The first statement of the handler body of each route.
BodyStart(op) ==
    CASE op = "request" -> "check"
      [] op \in {"approve", "reject"} -> "load_req"
      [] op \in {"revoke", "lock", "unlock"} -> "load_user"
      [] op \in {"set_status", "set_priority", "set_notes", "soft_delete"} -> "load_report"
      [] op \in {"read", "history"} -> "load_report"
      [] op = "create_report" -> "flush"
      [] OTHER -> "commit"

\* Variant of SessionCheck: a session is refused from the instant expires_at is
\* reached instead of after it.
SessionCheckExpiresEarly(hdr, token) ==
    IF hdr # "bearer" THEN "401"
    ELSE IF token \notin DOMAIN sessions THEN "401"
    ELSE IF ~sessions[token].is_valid THEN "401"
    ELSE IF sessions[token].expires_at <= now THEN "401"
    ELSE "ok"

\* get_current_user, lines 19-42: header, session row, validity, expiry.
SessionCheck(hdr, token) ==
    IF hdr # "bearer" THEN "401"
    ELSE IF token \notin DOMAIN sessions THEN "401"
    ELSE IF ~sessions[token].is_valid THEN "401"
    ELSE IF sessions[token].expires_at < now THEN "401"
    ELSE "ok"

\* Variant of UserCheck: the is_locked test is missing.
UserCheckActiveOnly(u) ==
    IF u \notin DOMAIN users THEN "401"
    ELSE IF ~users[u].is_active THEN "403"
    ELSE "ok"

\* get_current_user, lines 44-57: the owning user row and its status.
UserCheck(u) ==
    IF u \notin DOMAIN users THEN "401"
    ELSE IF ~users[u].is_active THEN "403"
    ELSE IF users[u].is_locked THEN "403"
    ELSE "ok"

\* require_role / require_admin / require_super_admin
RoleCheck(role, required) == IF role \in required THEN "ok" ELSE "403"

\* get_current_user followed by the route's role dependency.  The two SELECTs
\* (session row, user row) are taken as one step: no handler writes between them
\* in the same request, and the role check is synchronous code after the second.
Principal(token) == sessions[token].user_id

\* Variant of Resolve: the user's status is tested before the session's validity.
ResolveUserFirst(hdr, token, required) ==
    IF hdr # "bearer" \/ token \notin DOMAIN sessions THEN "401"
    ELSE IF UserCheck(Principal(token)) # "ok" THEN UserCheck(Principal(token))
    ELSE IF SessionCheck(hdr, token) # "ok" THEN SessionCheck(hdr, token)
    ELSE RoleCheck(users[Principal(token)].role, required)

Resolve(hdr, token, required) ==
    IF SessionCheck(hdr, token) # "ok" THEN SessionCheck(hdr, token)
    ELSE IF UserCheck(Principal(token)) # "ok" THEN UserCheck(Principal(token))
    ELSE RoleCheck(users[Principal(token)].role, required)

\* Variant of get_current_user: a resolved session is renewed (sliding expiry).
get_current_user_renews(p) ==
    /\ pc[p] = "auth"
    /\ LET c == Resolve(rq[p].hdr, rq[p].token, RequiredRoles(rq[p].op)) IN
       IF c # "ok"
       THEN /\ Respond(p, c)
            /\ sessions' = sessions
       ELSE /\ LET u == Principal(rq[p].token) IN
               IF rq[p].op = "me" THEN Reply(p, u, <<>>)
               ELSE Goto(p, BodyStart(rq[p].op), [rq[p] EXCEPT !.actor = u, !.arole = users[u].role])
            /\ sessions' = [sessions EXCEPT ![rq[p].token].expires_at = now + SESSION_EXPIRY_HOURS]
    /\ UNCHANGED <<users, requests, reports, history, audit, env>>

\* Variant of get_current_user: a refused request is recorded in audit_logs.
get_current_user_records_refusal(p) ==
    /\ pc[p] = "auth"
    /\ LET c == Resolve(rq[p].hdr, rq[p].token, RequiredRoles(rq[p].op)) IN
       IF c # "ok"
       THEN /\ Respond(p, c)
            /\ audit' = Append(audit, AuditRow(NoId, "ACCESS_DENIED", NoId))
            /\ UNCHANGED <<users, sessions, requests, reports, history, env>>
       ELSE /\ LET u == Principal(rq[p].token) IN
               IF rq[p].op = "me" THEN Reply(p, u, <<>>)
               ELSE Goto(p, BodyStart(rq[p].op), [rq[p] EXCEPT !.actor = u, !.arole = users[u].role])
            /\ UNCHANGED <<db, env>>

get_current_user(p) ==
    /\ pc[p] = "auth"
    /\ LET c == Resolve(rq[p].hdr, rq[p].token, RequiredRoles(rq[p].op)) IN
       IF c # "ok" THEN Respond(p, c)
       ELSE LET u == Principal(rq[p].token) IN
            IF rq[p].op = "me" THEN Reply(p, u, <<>>)
            ELSE Goto(p, BodyStart(rq[p].op), [rq[p] EXCEPT !.actor = u, !.arole = users[u].role])
    /\ UNCHANGED <<db, env>>

\* SELECT of a user row by primary key inside a request: the session's identity
\* map returns the principal object loaded by get_current_user unrefreshed.
LoadedRole(p, u) == IF u = rq[p].actor THEN rq[p].arole ELSE users[u].role
LoadedLocked(p, u) == IF u = rq[p].actor THEN FALSE ELSE users[u].is_locked

(* ---------------- services/audit_service.py --------------------------- *)
\* Variant of AuditAction: unlock_user records the action of lock_user.
AuditActionUnlockAsLock(op) ==
    CASE op = "request" -> "ADMIN_REQUESTED"
      [] op = "approve" -> "ADMIN_APPROVED"
      [] op = "reject" -> "ADMIN_REJECTED"
      [] op = "revoke" -> "ADMIN_REVOKED"
      [] op \in {"lock", "unlock"} -> "USER_LOCKED"
      [] op = "create_report" -> "REPORT_CREATED"
      [] op = "set_status" -> "REPORT_STATUS_CHANGED"
      [] op = "set_priority" -> "REPORT_PRIORITY_CHANGED"
      [] op = "set_notes" -> "REPORT_NOTES_UPDATED"
      [] op = "soft_delete" -> "REPORT_DELETED"
      [] op = "register" -> "USER_REGISTERED"
      [] op = "login" -> "USER_LOGIN"
      [] op = "logout" -> "USER_LOGOUT"
      [] OTHER -> "NONE"

\* The action each service passes to create_audit_log.
AuditAction(op) ==
    CASE op = "request" -> "ADMIN_REQUESTED"
      [] op = "approve" -> "ADMIN_APPROVED"
      [] op = "reject" -> "ADMIN_REJECTED"
      [] op = "revoke" -> "ADMIN_REVOKED"
      [] op = "lock" -> "USER_LOCKED"
      [] op = "unlock" -> "USER_UNLOCKED"
      [] op = "create_report" -> "REPORT_CREATED"
      [] op = "set_status" -> "REPORT_STATUS_CHANGED"
      [] op = "set_priority" -> "REPORT_PRIORITY_CHANGED"
      [] op = "set_notes" -> "REPORT_NOTES_UPDATED"
      [] op = "soft_delete" -> "REPORT_DELETED"
      [] op = "register" -> "USER_REGISTERED"
      [] op = "login" -> "USER_LOGIN"
      [] op = "logout" -> "USER_LOGOUT"
      [] OTHER -> "NONE"

\* create_audit_log: the audit row is added and committed in a transaction of
\* its own, after the caller's db.commit() of the business mutation.
create_audit_log(p) ==
    /\ pc[p] = "audit"
    /\ audit' = Append(audit, AuditRow(rq[p].actor, AuditAction(rq[p].op), rq[p].res))
    /\ issued' = IF rq[p].op = "login" THEN issued @@ (rq[p].token :> rq[p].actor) ELSE issued
    /\ Respond(p, "ok")
    /\ UNCHANGED <<users, sessions, requests, reports, history, now, faults, loggedOut, statusCalls>>

(* ---------------- services/admin_service.py --------------------------- *)
PendingOf(u) == {r \in DOMAIN requests : requests[r].user_id = u /\ requests[r].status = "PENDING"}

RequestRow(u) == [user_id |-> u, status |-> "PENDING", approved_by |-> NoId, resolved_at |-> -1]

\* Variant of RequestPrecondition: the SELECT for an existing PENDING request
\* is left out.
RequestPreconditionRoleOnly(role, u) ==
    IF role \in {"ADMIN", "SUPER_ADMIN"} THEN "403" ELSE "ok"

\* create_admin_request, lines 20-34: role check on the principal, then the
\* SELECT of the user's PENDING request (scalar_one_or_none raises on 2+ rows).
RequestPrecondition(role, u) ==
    IF role \in {"ADMIN", "SUPER_ADMIN"} THEN "403"
    ELSE IF Cardinality(PendingOf(u)) = 1 THEN "400"
    ELSE IF Cardinality(PendingOf(u)) > 1 THEN "500"
    ELSE "ok"

create_admin_request_check(p) ==
    /\ pc[p] = "check" /\ rq[p].op = "request"
    /\ LET c == RequestPrecondition(rq[p].arole, rq[p].actor) IN
       IF c # "ok" THEN Respond(p, c) ELSE Goto(p, "commit", rq[p])
    /\ UNCHANGED <<db, env>>

\* Variant of AdminRequestConstraint: a partial unique index on user_id for
\* PENDING rows.
AdminRequestConstraintUnique(u) == PendingOf(u) = {}

\* AdminRequest.__table_args__ = (): the store accepts every row.
AdminRequestConstraint(u) == TRUE

\* create_admin_request, lines 36-45: INSERT and commit.  The table has no
\* uniqueness constraint on (user_id, PENDING) (models/admin_request.py 35-37).
create_admin_request_commit(p) ==
    /\ pc[p] = "commit" /\ rq[p].op = "request"
    /\ IF AdminRequestConstraint(rq[p].actor)
       THEN /\ requests' = requests @@ (NextId(requests) :> RequestRow(rq[p].actor))
            /\ Goto(p, "audit", [rq[p] EXCEPT !.res = NextId(requests)])
       ELSE /\ requests' = requests
            /\ Respond(p, "500")
    /\ UNCHANGED <<users, sessions, reports, history, audit, env>>

\* The admin requests of one user.
RequestsOf(u) == {r \in DOMAIN requests : requests[r].user_id = u}

\* routes/users.py 47-87: the SELECT of the caller's requests, newest first, is
\* read with scalar_one_or_none(), which raises MultipleResultsFound when the
\* statement returns more than one row; the route does not catch it.
get_admin_request_status(p) ==
    /\ pc[p] = "commit" /\ rq[p].op = "request_status"
    /\ LET mine == RequestsOf(rq[p].actor) IN
       IF mine = {} THEN Reply(p, NoId, << <<"has_request", FALSE>> >>)
       ELSE IF Cardinality(mine) > 1 THEN Respond(p, "500")
       ELSE LET r == CHOOSE x \in mine : TRUE IN
            Reply(p, r, << <<"has_request", TRUE>>, <<"status", requests[r].status>> >>)
    /\ UNCHANGED <<db, env>>

\* approve_admin_request 70-79 / reject_admin_request 125-134
ResolvePrecondition(rid) ==
    IF rid \notin DOMAIN requests THEN "404"
    ELSE IF requests[rid].status # "PENDING" THEN "400"
    ELSE "ok"

resolve_admin_request_load(p) ==
    /\ pc[p] = "load_req" /\ rq[p].op \in {"approve", "reject"}
    /\ LET c == ResolvePrecondition(rq[p].target) IN
       IF c # "ok" THEN Respond(p, c)
       ELSE Goto(p, IF rq[p].op = "approve" THEN "load_user" ELSE "commit",
                 [rq[p] EXCEPT !.ldst = requests[rq[p].target].status,
                               !.lduser = requests[rq[p].target].user_id])
    /\ UNCHANGED <<db, env>>

\* approve_admin_request 81-98: the requester's row, then the assignments.
approve_admin_request_load_user(p) ==
    /\ pc[p] = "load_user" /\ rq[p].op = "approve"
    /\ IF rq[p].lduser \notin DOMAIN users THEN Respond(p, "404")
       ELSE Goto(p, "commit", [rq[p] EXCEPT !.ldrole = LoadedRole(p, rq[p].lduser)])
    /\ UNCHANGED <<db, env>>

\* The flush of a resolved request: UPDATE admin_requests ... WHERE id = :id.
ResolvedRow(row, status, by, at) ==
    [row EXCEPT !.status = status, !.approved_by = by, !.resolved_at = at]

\* The flush of user.role = new: an UPDATE only if new differs from the loaded role.
FlushRole(u, loaded, new) ==
    IF loaded = new THEN users ELSE [users EXCEPT ![u].role = new]

approve_admin_request_commit(p) ==
    /\ pc[p] = "commit" /\ rq[p].op = "approve"
    /\ requests' = [requests EXCEPT ![rq[p].target] = ResolvedRow(@, "APPROVED", rq[p].actor, now)]
    /\ users' = FlushRole(rq[p].lduser, rq[p].ldrole, "ADMIN")
    /\ Goto(p, "audit", [rq[p] EXCEPT !.res = rq[p].target])
    /\ UNCHANGED <<sessions, reports, history, audit, env>>

\* Variant of reject_admin_request_commit: the requester's role is reset to USER.
reject_admin_request_commit_demotes(p) ==
    /\ pc[p] = "commit" /\ rq[p].op = "reject"
    /\ requests' = [requests EXCEPT ![rq[p].target] = ResolvedRow(@, "REJECTED", rq[p].actor, now)]
    /\ users' = [users EXCEPT ![rq[p].lduser].role = "USER"]
    /\ Goto(p, "audit", [rq[p] EXCEPT !.res = rq[p].target])
    /\ UNCHANGED <<sessions, reports, history, audit, env>>

\* reject_admin_request 136-142
reject_admin_request_commit(p) ==
    /\ pc[p] = "commit" /\ rq[p].op = "reject"
    /\ requests' = [requests EXCEPT ![rq[p].target] = ResolvedRow(@, "REJECTED", rq[p].actor, now)]
    /\ Goto(p, "audit", [rq[p] EXCEPT !.res = rq[p].target])
    /\ UNCHANGED <<users, sessions, reports, history, audit, env>>

\* Variant of UserPrecondition: revoke refuses only a user whose role is USER.
UserPreconditionRevokeStaff(op, u, role, locked) ==
    IF u \notin DOMAIN users THEN "404"
    ELSE IF op = "revoke" /\ role = "USER" THEN "400"
    ELSE IF op = "lock" /\ role = "SUPER_ADMIN" THEN "400"
    ELSE IF op = "lock" /\ locked THEN "400"
    ELSE IF op = "unlock" /\ ~locked THEN "400"
    ELSE "ok"

\* revoke_admin_role 169-178, lock_user 211-223, unlock_user 255-264
UserPrecondition(op, u, role, locked) ==
    IF u \notin DOMAIN users THEN "404"
    ELSE IF op = "revoke" /\ role # "ADMIN" THEN "400"
    ELSE IF op = "lock" /\ role = "SUPER_ADMIN" THEN "400"
    ELSE IF op = "lock" /\ locked THEN "400"
    ELSE IF op = "unlock" /\ ~locked THEN "400"
    ELSE "ok"

user_admin_load(p) ==
    /\ pc[p] = "load_user" /\ rq[p].op \in {"revoke", "lock", "unlock"}
    /\ LET u == rq[p].target
           c == IF u \in DOMAIN users
                THEN UserPrecondition(rq[p].op, u, LoadedRole(p, u), LoadedLocked(p, u))
                ELSE "404" IN
       IF c # "ok" THEN Respond(p, c)
       ELSE Goto(p, "commit", [rq[p] EXCEPT !.ldrole = LoadedRole(p, u),
                                            !.ldlock = LoadedLocked(p, u)])
    /\ UNCHANGED <<db, env>>

FlushLocked(u, loaded, new) ==
    IF loaded = new THEN users ELSE [users EXCEPT ![u].is_locked = new]

revoke_admin_role_commit(p) ==
    /\ pc[p] = "commit" /\ rq[p].op = "revoke"
    /\ users' = FlushRole(rq[p].target, rq[p].ldrole, "USER")
    /\ Goto(p, "audit", [rq[p] EXCEPT !.res = rq[p].target])
    /\ UNCHANGED <<sessions, requests, reports, history, audit, env>>

lock_user_commit(p) ==
    /\ pc[p] = "commit" /\ rq[p].op = "lock"
    /\ users' = FlushLocked(rq[p].target, rq[p].ldlock, TRUE)
    /\ Goto(p, "audit", [rq[p] EXCEPT !.res = rq[p].target])
    /\ UNCHANGED <<sessions, requests, reports, history, audit, env>>

unlock_user_commit(p) ==
    /\ pc[p] = "commit" /\ rq[p].op = "unlock"
    /\ users' = FlushLocked(rq[p].target, rq[p].ldlock, FALSE)
    /\ Goto(p, "audit", [rq[p] EXCEPT !.res = rq[p].target])
    /\ UNCHANGED <<sessions, requests, reports, history, audit, env>>

(* ---------------- services/report_service.py -------------------------- *)
ReportRow(u, priority) ==
    [user_id |-> u, status |-> "NEW", priority |-> priority, admin_notes |-> Null,
     is_deleted |-> FALSE, deleted_at |-> -1, updated_at |-> now]

HistoryRow(r, old, new, by) ==
    [report_id |-> r, old_status |-> old, new_status |-> new, changed_by |-> by]

\* The status-history rows of one report, in insertion order.
HistoryOf(r) == SelectSeq(history, LAMBDA h : h.report_id = r)

\* create_report 23-35: db.add(report); await db.flush().  The INSERT is sent
\* inside the request's open transaction: no other request sees the row, and it
\* is discarded if the request stops before the commit.
create_report_flush(p) ==
    /\ pc[p] = "flush" /\ rq[p].op = "create_report"
    /\ Goto(p, "commit", rq[p])
    /\ UNCHANGED <<db, env>>

\* Variant of CreationHistory: the db.add(history) is missing.
CreationHistoryMissing(id, by) == history

\* create_report 37-45: the first history row of the report.
CreationHistory(id, by) == Append(history, HistoryRow(id, Null, "NEW", by))

\* create_report 47: the report and its first history row are committed in one
\* transaction.
create_report_commit(p) ==
    /\ pc[p] = "commit" /\ rq[p].op = "create_report"
    /\ LET id == NextId(reports) IN
       /\ reports' = reports @@ (id :> ReportRow(rq[p].actor, rq[p].val))
       /\ history' = CreationHistory(id, rq[p].actor)
       /\ statusCalls' = statusCalls @@ (id :> 0)
       /\ Goto(p, "audit", [rq[p] EXCEPT !.res = id])
    /\ UNCHANGED <<users, sessions, requests, audit, now, faults, issued, loggedOut>>

\* get_report_by_id 64-76, and the routes' 404
ReportVisible(r) == r \in DOMAIN reports /\ ~reports[r].is_deleted

\* The column a route changes.
ReportField(op) ==
    CASE op = "set_status" -> "status"
      [] op = "set_priority" -> "priority"
      [] OTHER -> "admin_notes"

get_report_by_id(p) ==
    /\ pc[p] = "load_report"
    /\ rq[p].op \in {"set_status", "set_priority", "set_notes", "soft_delete"}
    /\ IF ~ReportVisible(rq[p].target) THEN Respond(p, "404")
       ELSE Goto(p, "commit", [rq[p] EXCEPT !.ldst = reports[rq[p].target][ReportField(rq[p].op)]])
    /\ UNCHANGED <<db, env>>

\* Variant of FlushReport: a report that is CLOSED stays CLOSED.
FlushReportClosedIsFinal(r, field, loaded, new) ==
    IF loaded = new \/ (field = "status" /\ loaded = "CLOSED") THEN reports
    ELSE [reports EXCEPT ![r][field] = new]

\* The flush of report.<field> = new: the column is written only if new differs
\* from the value the request loaded.
FlushReport(r, field, loaded, new) ==
    IF loaded = new THEN reports ELSE [reports EXCEPT ![r][field] = new]

\* updated_at: assigned by the services (report_service.py 92, 134, 164) and set
\* by the column's onupdate on every UPDATE of the row (models/crime_report.py 42).
Touched(rows, r) == [rows EXCEPT ![r].updated_at = now]

\* Variant of StatusHistory: a transition to the status already held adds no row.
StatusHistoryChangesOnly(r, loaded, new, by) ==
    IF loaded = new THEN history ELSE Append(history, HistoryRow(r, loaded, new, by))

\* update_report_status 94-102: the history row (old_status = the status the
\* request loaded) is added whatever the new status is.
StatusHistory(r, loaded, new, by) == Append(history, HistoryRow(r, loaded, new, by))

\* update_report_status 89-104
update_report_status_commit(p) ==
    /\ pc[p] = "commit" /\ rq[p].op = "set_status"
    /\ reports' = Touched(FlushReport(rq[p].target, "status", rq[p].ldst, rq[p].val), rq[p].target)
    /\ history' = StatusHistory(rq[p].target, rq[p].ldst, rq[p].val, rq[p].actor)
    /\ statusCalls' = [statusCalls EXCEPT ![rq[p].target] = @ + 1]
    /\ Goto(p, "audit", [rq[p] EXCEPT !.res = rq[p].target])
    /\ UNCHANGED <<users, sessions, requests, audit, now, faults, issued, loggedOut>>

\* Variant of update_report_field_commit: the change is recorded in the status
\* history as well.
update_report_field_commit_with_history(p) ==
    /\ pc[p] = "commit" /\ rq[p].op \in {"set_priority", "set_notes"}
    /\ reports' = Touched(FlushReport(rq[p].target, ReportField(rq[p].op), rq[p].ldst, rq[p].val),
                           rq[p].target)
    /\ history' = Append(history, HistoryRow(rq[p].target, reports[rq[p].target].status,
                                              reports[rq[p].target].status, rq[p].actor))
    /\ Goto(p, "audit", [rq[p] EXCEPT !.res = rq[p].target])
    /\ UNCHANGED <<users, sessions, requests, audit, env>>

\* update_report_priority 131-136, update_report_notes 163-166
update_report_field_commit(p) ==
    /\ pc[p] = "commit" /\ rq[p].op \in {"set_priority", "set_notes"}
    /\ reports' = Touched(FlushReport(rq[p].target, ReportField(rq[p].op), rq[p].ldst, rq[p].val),
                           rq[p].target)
    /\ Goto(p, "audit", [rq[p] EXCEPT !.res = rq[p].target])
    /\ UNCHANGED <<users, sessions, requests, history, audit, env>>

\* Variant of soft_delete_report_commit: the report's history rows are deleted
\* with it (the ondelete CASCADE of a hard delete).
soft_delete_report_commit_cascades(p) ==
    /\ pc[p] = "commit" /\ rq[p].op = "soft_delete"
    /\ reports' = Touched([reports EXCEPT ![rq[p].target].is_deleted = TRUE,
                                          ![rq[p].target].deleted_at = now], rq[p].target)
    /\ history' = SelectSeq(history, LAMBDA h : h.report_id # rq[p].target)
    /\ Goto(p, "audit", [rq[p] EXCEPT !.res = rq[p].target])
    /\ UNCHANGED <<users, sessions, requests, audit, env>>

\* soft_delete_report 191-197: the loaded object is never deleted (the route
\* loaded it through get_report_by_id), so is_deleted and deleted_at are written.
soft_delete_report_commit(p) ==
    /\ pc[p] = "commit" /\ rq[p].op = "soft_delete"
    /\ reports' = Touched([reports EXCEPT ![rq[p].target].is_deleted = TRUE,
                                          ![rq[p].target].deleted_at = now], rq[p].target)
    /\ Goto(p, "audit", [rq[p] EXCEPT !.res = rq[p].target])
    /\ UNCHANGED <<users, sessions, requests, history, audit, env>>

(* ---------------- routes/reports.py: the reads ------------------------- *)
\* The columns of a loaded report that the responses are built from.
ReportFields(r) ==
    << <<"status", reports[r].status>>, <<"priority", reports[r].priority>>,
       <<"updated_at", reports[r].updated_at>>, <<"admin_notes", reports[r].admin_notes>> >>

\* Variant of ReportResponse: every reader is sent the admin response.
ReportResponseWithNotes(fields, role) == fields

\* CrimeReportAdminResponse carries admin_notes, CrimeReportUserResponse does not.
ReportResponse(fields, role) ==
    IF role \in {"ADMIN", "SUPER_ADMIN"} THEN fields
    ELSE SelectSeq(fields, LAMBDA f : f[1] # "admin_notes")

\* Variant of ReadAccess: the is_owner test is missing.
ReadAccessAnyUser(role, u, owner) == "ok"

\* is_admin / is_owner, routes/reports.py 184-190 and 354-359
ReadAccess(role, u, owner) ==
    IF role \in {"ADMIN", "SUPER_ADMIN"} \/ owner = u THEN "ok" ELSE "403"

\* get_report_by_id 174-177 and get_report_history 349-359: the lookup excludes
\* deleted reports; the history route checks the permissions right after it.
read_report_load(p) ==
    /\ pc[p] = "load_report" /\ rq[p].op \in {"read", "history"}
    /\ LET r == rq[p].target IN
       IF ~ReportVisible(r) THEN Respond(p, "404")
       ELSE IF rq[p].op = "history" /\ ReadAccess(rq[p].arole, rq[p].actor, reports[r].user_id) # "ok"
            THEN Respond(p, "403")
       ELSE Goto(p, "select", [rq[p] EXCEPT !.lduser = reports[r].user_id,
                                            !.body = ReportFields(r)])
    /\ UNCHANGED <<db, env>>

\* get_report_by_id 179-221: the creator row is read, then the permissions are
\* checked and the response is built from the loaded report.
read_report_respond(p) ==
    /\ pc[p] = "select" /\ rq[p].op = "read"
    /\ IF ReadAccess(rq[p].arole, rq[p].actor, rq[p].lduser) # "ok" THEN Respond(p, "403")
       ELSE Reply(p, rq[p].target, ReportResponse(rq[p].body, rq[p].arole))
    /\ UNCHANGED <<db, env>>

\* get_report_history 361-390: the rows of the report, oldest first.
HistoryResponse(r) ==
    [k \in 1..Len(HistoryOf(r)) |-> <<HistoryOf(r)[k].old_status, HistoryOf(r)[k].new_status>>]

read_history_respond(p) ==
    /\ pc[p] = "select" /\ rq[p].op = "history"
    /\ Reply(p, rq[p].target, HistoryResponse(rq[p].target))
    /\ UNCHANGED <<db, env>>

(* ---------------- services/auth_service.py ----------------------------- *)
\* core/security.py
hash_password(plain) == <<"bcrypt", plain>>
verify_password(plain, hashed) == hashed = hash_password(plain)

\* str.lower() on the addresses the model uses
Lower(e) ==
    CASE e = "Alice@X.com" -> "alice@x.com"
      [] e = "BOB@x.com" -> "bob@x.com"
      [] e = "Carol@X.com" -> "carol@x.com"
      [] OTHER -> e

UserByEmail(e) == {u \in DOMAIN users : users[u].email = e}

\* Variant of register_user_check: the address is used as it was typed.
register_user_check_as_typed(p) ==
    /\ pc[p] = "check" /\ rq[p].op = "register"
    /\ IF UserByEmail(rq[p].email) # {} THEN Respond(p, "409")
       ELSE Goto(p, "commit", rq[p])
    /\ UNCHANGED <<db, env>>

\* register_user 35-44: the address is lower-cased, then looked up.
register_user_check(p) ==
    /\ pc[p] = "check" /\ rq[p].op = "register"
    /\ IF UserByEmail(Lower(rq[p].email)) # {} THEN Respond(p, "409")
       ELSE Goto(p, "commit", [rq[p] EXCEPT !.email = Lower(rq[p].email)])
    /\ UNCHANGED <<db, env>>

\* The row register_user builds (46-53).
RegisteredRow(email, password) ==
    [email |-> email, password_hash |-> hash_password(password), role |-> "USER",
     is_active |-> TRUE, is_locked |-> FALSE]

\* register_user 55-57: INSERT and commit; users.email is unique (models/user.py
\* 22), so the INSERT of an address that is stored by now raises IntegrityError.
register_user_commit(p) ==
    /\ pc[p] = "commit" /\ rq[p].op = "register"
    /\ IF UserByEmail(rq[p].email) # {}
       THEN /\ users' = users
            /\ Respond(p, "500")
       ELSE /\ users' = users @@ (NextId(users) :> RegisteredRow(rq[p].email, rq[p].password))
            /\ Goto(p, "audit", [rq[p] EXCEPT !.actor = NextId(users), !.res = NextId(users)])
    /\ UNCHANGED <<sessions, requests, reports, history, audit, env>>

\* login_user 95-112: the user row, the password, the account status
LoginCheck(email, password) ==
    LET found == UserByEmail(Lower(email)) IN
    IF found = {} THEN "401"
    ELSE LET u == CHOOSE x \in found : TRUE IN
         IF ~verify_password(password, users[u].password_hash) THEN "401"
         ELSE IF users[u].is_locked THEN "403"
         ELSE IF ~users[u].is_active THEN "403"
         ELSE "ok"

\* login_user 95-116: expires_at is computed before the INSERT is committed.
login_user_check(p) ==
    /\ pc[p] = "check" /\ rq[p].op = "login"
    /\ LET c == LoginCheck(rq[p].email, rq[p].password) IN
       IF c # "ok" THEN Respond(p, c)
       ELSE LET u == CHOOSE x \in UserByEmail(Lower(rq[p].email)) : TRUE IN
            Goto(p, "commit", [rq[p] EXCEPT !.actor = u, !.ldexp = now + SESSION_EXPIRY_HOURS])
    /\ UNCHANGED <<db, env>>

\* generate_session_token: a UUID4 never issued before.
NewSession(u, exp) == [user_id |-> u, expires_at |-> exp, is_valid |-> TRUE]

\* login_user 118-128
login_user_commit(p) ==
    /\ pc[p] = "commit" /\ rq[p].op = "login"
    /\ LET t == NextId(sessions) IN
       /\ sessions' = sessions @@ (t :> NewSession(rq[p].actor, rq[p].ldexp))
       /\ Goto(p, "audit", [rq[p] EXCEPT !.token = t, !.res = rq[p].actor])
    /\ UNCHANGED <<users, requests, reports, history, audit, env>>

\* Variant of Invalidate: every session of the token's user is invalidated.
InvalidateUserSessions(t) ==
    [x \in DOMAIN sessions |->
        IF sessions[x].user_id = sessions[t].user_id
        THEN [sessions[x] EXCEPT !.is_valid = FALSE] ELSE sessions[x]]

\* Variant of Invalidate: the assignment to is_valid is lost.
InvalidateNothing(t) == sessions

\* logout_user 161-168: the SELECT by token returns the session object that
\* get_current_user loaded in this request; is_valid = False is flushed.
Invalidate(t) == [sessions EXCEPT ![t].is_valid = FALSE]

logout_user_commit(p) ==
    /\ pc[p] = "commit" /\ rq[p].op = "logout"
    /\ sessions' = Invalidate(rq[p].token)
    /\ loggedOut' = loggedOut \cup {rq[p].token}
    /\ Goto(p, "audit", [rq[p] EXCEPT !.res = rq[p].actor])
    /\ UNCHANGED <<users, requests, reports, history, audit, now, faults, issued, statusCalls>>

\* The clock advances.
TickHours == SESSION_EXPIRY_HOURS \div 2

Tick ==
    /\ now < MaxTicks * TickHours
    /\ now' = now + TickHours
    /\ UNCHANGED <<db, ghost, faults, pc, rq>>

(* ------------------------- request life cycle ------------------------- *)
Running(p) == pc[p] \notin {"idle", "done"}

\* The routes with no get_current_user dependency (routes/auth.py 19-54).
OpenRoutes == {"register", "login"}

\* An inbound request: route, Authorization header, path parameter and body.
\* cap bounds the audit table in the behaviours explored.
Begin(p, r, cap) ==
    /\ pc[p] = "idle"
    /\ Len(audit) < cap
    /\ Goto(p, IF r.op \in OpenRoutes THEN "check" ELSE "auth", r)
    /\ UNCHANGED <<db, env>>

Call(op, token, target, val) ==
    [Blank EXCEPT !.op = op, !.hdr = "bearer", !.token = token, !.target = target, !.val = val]

Credentials(op, email, password) ==
    [Blank EXCEPT !.op = op, !.email = email, !.password = password]

\* The response has been sent; the slot takes the next request.
Finish(p) ==
    /\ pc[p] = "done"
    /\ Goto(p, "idle", Blank)
    /\ UNCHANGED <<db, env>>

\* The request stops at an await: the store is unavailable or the worker dies.
\* Nothing it has not committed is kept; the caller gets an internal error.
Fail(p) ==
    /\ Running(p)
    /\ faults < MaxFaults
    /\ faults' = faults + 1
    /\ Respond(p, "500")
    /\ UNCHANGED <<db, now, ghost>>

(* ---------------- seed_superadmin.py ----------------------------------- *)
\* The values of settings.SUPER_ADMIN_EMAIL the script is run with: the default,
\* the address of a registered citizen, an address no user has.
SeedEmails == {"admin@example.com", "alice@x.com", "root@example.com"}

\* python seed_superadmin.py: the script opens a database session of its own.
seed_super_admin_start(p) ==
    /\ pc[p] = "idle"
    /\ \E e \in SeedEmails : Goto(p, "seed", Credentials("seed", e, "secret"))
    /\ UNCHANGED <<db, env>>

\* seed_super_admin 36-55: the SELECT by lower-cased address; nothing to do if
\* the user is SUPER_ADMIN already.
seed_super_admin_select(p) ==
    /\ pc[p] = "seed" /\ rq[p].op = "seed"
    /\ LET found == UserByEmail(Lower(rq[p].email)) IN
       IF found = {} THEN Goto(p, "commit", rq[p])
       ELSE LET u == CHOOSE x \in found : TRUE IN
            IF users[u].role = "SUPER_ADMIN" THEN Respond(p, "ok")
            ELSE Goto(p, "commit", [rq[p] EXCEPT !.lduser = u, !.ldrole = users[u].role])
    /\ UNCHANGED <<db, env>>

\* seed_super_admin 56-80: the existing user's role is set to SUPER_ADMIN (no
\* other column is assigned), or a new user is inserted; users.email is unique.
\* No audit row is written.
seed_super_admin_commit(p) ==
    /\ pc[p] = "commit" /\ rq[p].op = "seed"
    /\ IF rq[p].lduser # NoId
       THEN /\ users' = FlushRole(rq[p].lduser, rq[p].ldrole, "SUPER_ADMIN")
            /\ Respond(p, "ok")
       ELSE IF UserByEmail(Lower(rq[p].email)) # {}
       THEN /\ users' = users
            /\ Respond(p, "500")
       ELSE /\ users' = users @@ (NextId(users) :> UserRow(Lower(rq[p].email), "SUPER_ADMIN"))
            /\ Respond(p, "ok")
    /\ UNCHANGED <<sessions, requests, reports, history, audit, env>>

(* --------------------------- specifications -------------------------- *)
\* The admin elevation workflow under concurrent requests: alice (token 2) asks
\* for the ADMIN role, the super admin (token 1) approves, rejects and revokes.
ElevateInputs ==
    {Call("request", 2, NoId, ""), Call("revoke", 1, 2, "")}
      \cup {Call(op, 1, r, "") : op \in {"approve", "reject"}, r \in 1..MaxReqs}

RequestsInFlight == Cardinality({q \in Procs : Running(q) /\ rq[q].op = "request"})

StartElevate(p) ==
    \E r \in ElevateInputs :
       /\ r.op = "request" => Cardinality(DOMAIN requests) + RequestsInFlight < MaxReqs
       /\ Begin(p, r, Len(InitAudit) + MaxAudit + 1)

ElevateStep(p) ==
    \/ get_current_user(p)
    \/ create_admin_request_check(p)
    \/ create_admin_request_commit(p)
    \/ resolve_admin_request_load(p)
    \/ approve_admin_request_load_user(p)
    \/ approve_admin_request_commit(p)
    \/ reject_admin_request_commit(p)
    \/ user_admin_load(p)
    \/ revoke_admin_role_commit(p)
    \/ create_audit_log(p)
    \/ Finish(p)
    \/ Fail(p)

NextElevate == \E p \in Procs : StartElevate(p) \/ ElevateStep(p)

SpecElevate == Init /\ [][NextElevate]_vars

\* The same workflow with one request in flight at a time, called by every
\* logged-in user on every id.
ElevateSeqInputs ==
    {Call("request", t, NoId, "") : t \in 1..3}
      \cup {Call("revoke", t, u, "") : t \in 1..3, u \in 0..3}
      \cup {Call(op, t, r, "") : op \in {"approve", "reject"}, t \in 1..3, r \in 1..MaxReqs}
      \cup {Call("request_status", t, NoId, "") : t \in 1..3}

StartElevateSeq ==
    \E r \in ElevateSeqInputs :
       /\ r.op = "request" => Cardinality(DOMAIN requests) < MaxReqs
       /\ Begin(1, r, Len(InitAudit) + MaxAudit + 1)

NextElevateSeq == StartElevateSeq \/ ElevateStep(1) \/ get_admin_request_status(1)

SpecElevateSeq == Init /\ [][NextElevateSeq]_vars

\* The report lifecycle under concurrent requests.  bob (user 3) has been
\* promoted: his request 1 was approved by the super admin.
StaffAudit == InitAudit \o << AuditRow(3, "ADMIN_REQUESTED", 1), AuditRow(1, "ADMIN_APPROVED", 1) >>

InitStaff ==
    /\ users = (1 :> UserRow("admin@example.com", "SUPER_ADMIN"))
            @@ (2 :> UserRow("alice@x.com", "USER"))
            @@ (3 :> UserRow("bob@x.com", "ADMIN"))
    /\ sessions = (1 :> SessionRow(1, 0)) @@ (2 :> SessionRow(2, 0)) @@ (3 :> SessionRow(3, 0))
    /\ requests = (1 :> ResolvedRow(RequestRow(3), "APPROVED", 1, 0))
    /\ reports = <<>>
    /\ history = <<>>
    /\ audit = StaffAudit
    /\ now = 0
    /\ faults = 0
    /\ issued = (1 :> 1) @@ (2 :> 2) @@ (3 :> 3)
    /\ loggedOut = {}
    /\ statusCalls = <<>>
    /\ pc = [p \in Procs |-> "idle"]
    /\ rq = [p \in Procs |-> Blank]

StatusInputs == {"NEW", "ASSIGNED"}

ReportInputs ==
    {Call("create_report", 2, NoId, "MEDIUM")}
      \cup {Call("set_status", t, 1, v) : t \in {1, 3}, v \in StatusInputs}
      \cup {Call("set_priority", 1, 1, "HIGH"), Call("set_notes", 3, 1, "seen"),
            Call("soft_delete", 1, 1, "")}

ReportsInFlight == Cardinality({q \in Procs : Running(q) /\ rq[q].op = "create_report"})
StatusInFlight == Cardinality({q \in Procs : Running(q) /\ rq[q].op = "set_status"})

StartReport(p) ==
    \E r \in ReportInputs :
       /\ r.op = "create_report" => Cardinality(DOMAIN reports) + ReportsInFlight < MaxReports
       /\ r.op = "set_status" => Len(history) + StatusInFlight < MaxHistory
       /\ Begin(p, r, Len(StaffAudit) + MaxAudit)

ReportStep(p) ==
    \/ get_current_user(p)
    \/ create_report_flush(p)
    \/ create_report_commit(p)
    \/ get_report_by_id(p)
    \/ update_report_status_commit(p)
    \/ update_report_field_commit(p)
    \/ soft_delete_report_commit(p)
    \/ create_audit_log(p)
    \/ Finish(p)
    \/ Fail(p)

NextReport == \E p \in Procs : StartReport(p) \/ ReportStep(p)

SpecReport == InitStaff /\ [][NextReport]_vars

\* Sessions: alice logs in and out, calls /auth/me; the super admin locks and
\* unlocks her account; time passes.
SessionInputs ==
    {Credentials("login", "Alice@X.com", pw) : pw \in {"secret", "guess"}}
      \cup {Call(op, t, t, "") : op \in {"logout", "me"}, t \in {2, MaxSessions}}
      \cup {Call(op, 1, 2, "") : op \in {"lock", "unlock"}}

LoginsInFlight == Cardinality({q \in Procs : Running(q) /\ rq[q].op = "login"})

StartSession(p) ==
    \E r \in SessionInputs :
       /\ r.op = "login" => Cardinality(DOMAIN sessions) + LoginsInFlight < MaxSessions
       /\ Begin(p, r, Len(InitAudit) + MaxAudit)

SessionStep(p) ==
    \/ get_current_user(p)
    \/ login_user_check(p)
    \/ login_user_commit(p)
    \/ logout_user_commit(p)
    \/ user_admin_load(p)
    \/ lock_user_commit(p)
    \/ unlock_user_commit(p)
    \/ create_audit_log(p)
    \/ Finish(p)
    \/ Fail(p)

NextSession == Tick \/ \E p \in Procs : StartSession(p) \/ SessionStep(p)

SpecSession == Init /\ [][NextSession]_vars

\* Access control, one request at a time, over the stores the guard can meet:
\* alice (user 2, token 2) owns report 1 and has a PENDING admin request; her
\* session is live, invalidated or expired, her account active, locked or
\* inactive (the column is written outside these handlers); bob (user 3) is
\* ADMIN, or USER after his request was rejected.
AccessCases ==
    {[is_active |-> TRUE, is_locked |-> FALSE, is_valid |-> v, expires_at |-> e] :
        v \in BOOLEAN, e \in {0, TickHours, SESSION_EXPIRY_HOURS}}
      \cup {[is_active |-> a, is_locked |-> l, is_valid |-> v, expires_at |-> SESSION_EXPIRY_HOURS] :
              a \in BOOLEAN, l \in BOOLEAN, v \in BOOLEAN}

AccessAudit(bobRole) ==
    InitAudit
      \o << AuditRow(3, "ADMIN_REQUESTED", 1),
            AuditRow(1, IF bobRole = "ADMIN" THEN "ADMIN_APPROVED" ELSE "ADMIN_REJECTED", 1),
            AuditRow(2, "REPORT_CREATED", 1), AuditRow(2, "ADMIN_REQUESTED", 2) >>

InitAccess ==
    \E c \in AccessCases, bobRole \in {"USER", "ADMIN"} :
        /\ now = TickHours
        /\ users = (1 :> UserRow("admin@example.com", "SUPER_ADMIN"))
                @@ (2 :> [UserRow("alice@x.com", "USER") EXCEPT !.is_active = c.is_active,
                                                             !.is_locked = c.is_locked])
                @@ (3 :> UserRow("bob@x.com", bobRole))
        /\ sessions = (1 :> SessionRow(1, 0))
                   @@ (2 :> [user_id |-> 2, expires_at |-> c.expires_at, is_valid |-> c.is_valid])
                   @@ (3 :> SessionRow(3, 0))
        /\ requests = (1 :> ResolvedRow(RequestRow(3),
                                       IF bobRole = "ADMIN" THEN "APPROVED" ELSE "REJECTED", 1, 0))
                   @@ (2 :> RequestRow(2))
        /\ reports = (1 :> [ReportRow(2, "MEDIUM") EXCEPT !.updated_at = 0])
        /\ history = << HistoryRow(1, Null, "NEW", 2) >>
        /\ audit = AccessAudit(bobRole)
        /\ faults = 0
        /\ issued = (1 :> 1) @@ (2 :> 2) @@ (3 :> 3)
        /\ loggedOut = IF c.is_valid THEN {} ELSE {2}
        /\ statusCalls = (1 :> 0)
        /\ pc = [p \in Procs |-> "idle"]
        /\ rq = [p \in Procs |-> Blank]

\* Authorization headers: none, a scheme that is not Bearer, Bearer with a token
\* of each user and with a token no session has.
AccessHeaders ==
    {<<"none", NoId>>, <<"basic", 2>>} \cup {<<"bearer", t>> : t \in {NoId, 1, 2, 3}}

ReadOps == {"me", "read", "history"}

AccessCalls ==
    {Call("me", NoId, NoId, ""), Call("request", NoId, NoId, ""),
     Call("approve", NoId, 2, ""), Call("reject", NoId, 2, ""), Call("revoke", NoId, 3, ""),
     Call("lock", NoId, 2, ""), Call("unlock", NoId, 2, ""),
     Call("set_status", NoId, 1, "ASSIGNED"), Call("set_priority", NoId, 1, "HIGH"),
     Call("set_notes", NoId, 1, "seen"), Call("soft_delete", NoId, 1, ""),
     Call("read", NoId, 1, ""), Call("history", NoId, 1, ""),
     Call("read", NoId, MaxReports + 1, "")}

AccessInputs ==
    {[c EXCEPT !.hdr = h[1], !.token = h[2]] : c \in AccessCalls, h \in AccessHeaders}
      \cup {Call("logout", t, t, "") : t \in {NoId, 1, 2, 3}}

\* MaxAccessWrites bounds the requests that write; reads are always accepted.
StartAccess ==
    \E r \in AccessInputs :
       Begin(1, r, IF r.op \in ReadOps THEN Len(audit) + 1
                   ELSE Len(AccessAudit("USER")) + MaxAccessWrites)

AccessStep(p) ==
    \/ get_current_user(p)
    \/ create_admin_request_check(p)
    \/ create_admin_request_commit(p)
    \/ resolve_admin_request_load(p)
    \/ approve_admin_request_load_user(p)
    \/ approve_admin_request_commit(p)
    \/ reject_admin_request_commit(p)
    \/ user_admin_load(p)
    \/ revoke_admin_role_commit(p)
    \/ lock_user_commit(p)
    \/ unlock_user_commit(p)
    \/ get_report_by_id(p)
    \/ update_report_status_commit(p)
    \/ update_report_field_commit(p)
    \/ soft_delete_report_commit(p)
    \/ read_report_load(p)
    \/ read_report_respond(p)
    \/ read_history_respond(p)
    \/ logout_user_commit(p)
    \/ create_audit_log(p)
    \/ Finish(p)
    \/ Fail(p)

NextAccess == StartAccess \/ AccessStep(1)

SpecAccess == InitAccess /\ [][NextAccess]_vars

\* Account locking under concurrent requests, while the operator runs the seed
\* script: the super admin (token 1) and alice (token 2, once she has a role
\* that may) lock and unlock users 1 and 2.
LockInputs ==
    {Call(op, t, u, "") : op \in {"lock", "unlock"}, t \in {1, 2}, u \in {1, 2}}

StartLock(p) == \E r \in LockInputs : Begin(p, r, Len(InitAudit) + MaxAudit)

LockStep(p) ==
    \/ get_current_user(p)
    \/ user_admin_load(p)
    \/ lock_user_commit(p)
    \/ unlock_user_commit(p)
    \/ create_audit_log(p)
    \/ seed_super_admin_start(p)
    \/ seed_super_admin_select(p)
    \/ seed_super_admin_commit(p)
    \/ Finish(p)
    \/ Fail(p)

NextLock == \E p \in Procs : StartLock(p) \/ LockStep(p)

SpecLock == Init /\ [][NextLock]_vars

\* The status of a filed report, one request at a time: alice has filed report 1;
\* the super admin and bob set it to each status in turn.
FiledAudit == StaffAudit \o << AuditRow(2, "REPORT_CREATED", 1) >>

InitFiled ==
    /\ now = 0
    /\ users = (1 :> UserRow("admin@example.com", "SUPER_ADMIN"))
            @@ (2 :> UserRow("alice@x.com", "USER"))
            @@ (3 :> UserRow("bob@x.com", "ADMIN"))
    /\ sessions = (1 :> SessionRow(1, 0)) @@ (2 :> SessionRow(2, 0)) @@ (3 :> SessionRow(3, 0))
    /\ requests = (1 :> ResolvedRow(RequestRow(3), "APPROVED", 1, 0))
    /\ reports = (1 :> ReportRow(2, "MEDIUM"))
    /\ history = << HistoryRow(1, Null, "NEW", 2) >>
    /\ audit = FiledAudit
    /\ faults = 0
    /\ issued = (1 :> 1) @@ (2 :> 2) @@ (3 :> 3)
    /\ loggedOut = {}
    /\ statusCalls = (1 :> 0)
    /\ pc = [p \in Procs |-> "idle"]
    /\ rq = [p \in Procs |-> Blank]

StatusCalls == {Call("set_status", t, 1, v) : t \in {1, 3}, v \in ReportStatus}

StartStatus == \E r \in StatusCalls : Begin(1, r, Len(FiledAudit) + MaxAudit)

StatusStep(p) ==
    \/ get_current_user(p)
    \/ get_report_by_id(p)
    \/ update_report_status_commit(p)
    \/ create_audit_log(p)
    \/ Finish(p)
    \/ Fail(p)

NextStatus == StartStatus \/ StatusStep(1)

SpecStatus == InitFiled /\ [][NextStatus]_vars

\* The admin elevation workflow, one request at a time, on a system whose
\* operator runs the seed script: alice asks for the ADMIN role; the super admin
\* approves, rejects and revokes.
StartSeeded ==
    \E r \in ElevateInputs :
       /\ r.op = "request" => Cardinality(DOMAIN requests) < MaxReqs
       /\ Begin(1, r, Len(InitAudit) + MaxAudit)

SeededStep(p) ==
    \/ ElevateStep(p)
    \/ seed_super_admin_start(p)
    \/ seed_super_admin_select(p)
    \/ seed_super_admin_commit(p)

NextSeeded == StartSeeded \/ SeededStep(1)

SpecSeeded == Init /\ [][NextSeeded]_vars

\* Role changes and the sessions that exist already: bob has filed report 1;
\* alice asks for the ADMIN role and, with the token she has, sets the notes of
\* the report; the super admin approves and revokes.
RoleAudit == InitAudit \o << AuditRow(3, "REPORT_CREATED", 1) >>

InitRole ==
    /\ now = 0
    /\ users = (1 :> UserRow("admin@example.com", "SUPER_ADMIN"))
            @@ (2 :> UserRow("alice@x.com", "USER"))
            @@ (3 :> UserRow("bob@x.com", "USER"))
    /\ sessions = (1 :> SessionRow(1, 0)) @@ (2 :> SessionRow(2, 0)) @@ (3 :> SessionRow(3, 0))
    /\ requests = <<>>
    /\ reports = (1 :> ReportRow(3, "MEDIUM"))
    /\ history = << HistoryRow(1, Null, "NEW", 3) >>
    /\ audit = RoleAudit
    /\ faults = 0
    /\ issued = (1 :> 1) @@ (2 :> 2) @@ (3 :> 3)
    /\ loggedOut = {}
    /\ statusCalls = (1 :> 0)
    /\ pc = [p \in Procs |-> "idle"]
    /\ rq = [p \in Procs |-> Blank]

RoleInputs ==
    {Call("request", 2, NoId, ""), Call("revoke", 1, 2, ""), Call("set_notes", 2, 1, "seen")}
      \cup {Call("approve", 1, r, "") : r \in 1..MaxReqs}

StartRole(p) ==
    \E r \in RoleInputs :
       /\ r.op = "request" => Cardinality(DOMAIN requests) + RequestsInFlight < MaxReqs
       /\ Begin(p, r, Len(RoleAudit) + MaxAudit + 1)

RoleStep(p) ==
    \/ get_current_user(p)
    \/ create_admin_request_check(p)
    \/ create_admin_request_commit(p)
    \/ resolve_admin_request_load(p)
    \/ approve_admin_request_load_user(p)
    \/ approve_admin_request_commit(p)
    \/ user_admin_load(p)
    \/ revoke_admin_role_commit(p)
    \/ get_report_by_id(p)
    \/ update_report_field_commit(p)
    \/ create_audit_log(p)
    \/ Finish(p)
    \/ Fail(p)

NextRole == \E p \in Procs : StartRole(p) \/ RoleStep(p)

SpecRole == InitRole /\ [][NextRole]_vars

\* Registration under concurrent requests, while the operator runs the seed
\* script: addresses that are new, stored already, and equal to either up to
\* letter case.
RegisterInputs ==
    {Credentials("register", e, "secret") :
        e \in {"Alice@X.com", "carol@x.com", "Carol@X.com", "root@example.com"}}

StartRegister(p) == \E r \in RegisterInputs : Begin(p, r, Len(InitAudit) + MaxAudit)

RegisterStep(p) ==
    \/ register_user_check(p)
    \/ register_user_commit(p)
    \/ create_audit_log(p)
    \/ seed_super_admin_start(p)
    \/ seed_super_admin_select(p)
    \/ seed_super_admin_commit(p)
    \/ Finish(p)
    \/ Fail(p)

NextRegister == \E p \in Procs : StartRegister(p) \/ RegisterStep(p)

SpecRegister == Init /\ [][NextRegister]_vars

-----------------------------------------------------------------------------
\* Properties

Quiescent == \A p \in Procs : ~Running(p)

AuditRows(action, res) ==
    {i \in 1..Len(audit) : audit[i].action = action /\ audit[i].resource_id = res}

\* C1: every business mutation is committed together with its audit row or not
\* at all: once no request is in progress, each admin request has its
\* ADMIN_REQUESTED row and each resolved one its ADMIN_APPROVED / ADMIN_REJECTED
\* row.
C1_MutationHasAuditRow ==
    Quiescent =>
        \A r \in DOMAIN requests :
            /\ AuditRows("ADMIN_REQUESTED", r) # {}
            /\ requests[r].status = "APPROVED" => AuditRows("ADMIN_APPROVED", r) # {}
            /\ requests[r].status = "REJECTED" => AuditRows("ADMIN_REJECTED", r) # {}

\* C2: the status history of every report is a chain: the first row has no
\* old_status and every later row's old_status is the new_status of the row
\* before it.
C2_HistoryChain ==
    \A r \in DOMAIN reports :
        LET h == HistoryOf(r) IN
        /\ Len(h) >= 1
        /\ h[1].old_status = Null
        /\ \A k \in 2..Len(h) : h[k].old_status = h[k - 1].new_status

\* C3: a report has one history row for its creation plus one for every
\* update_report_status call that committed on it, transitions to the status
\* already held included; set_priority, set_notes and soft_delete add none.
C3_HistoryCount ==
    \A r \in DOMAIN reports : Len(HistoryOf(r)) = 1 + statusCalls[r]

C3_Witness ==
    \E r \in DOMAIN reports :
        /\ statusCalls[r] >= 2
        /\ \E k \in 1..Len(HistoryOf(r)) :
              HistoryOf(r)[k].old_status = HistoryOf(r)[k].new_status
        /\ reports[r].priority = "HIGH"

\* C4: once an admin request has left PENDING, its status, resolver and
\* resolution time never change again.
C4_ResolvedIsFinal ==
    [][\A r \in DOMAIN requests :
          requests[r].status # "PENDING" => requests'[r] = requests[r]]_vars

ResolveOk(p, r) ==
    /\ pc[p] = "done"
    /\ rq[p].op \in {"approve", "reject"}
    /\ rq[p].target = r
    /\ rq[p].result = "ok"

\* C5: at most one approve-or-reject call succeeds for a given admin request.
C5_OneResolution ==
    \A r \in DOMAIN requests :
        \A p, q \in Procs : (ResolveOk(p, r) /\ ResolveOk(q, r)) => p = q

\* C6: approve is one atomic step: the step that makes a request APPROVED leaves
\* the requesting user with role ADMIN, and an approve call never changes the
\* role while leaving the request PENDING.
C6_ApproveAtomic ==
    [][\A r \in DOMAIN requests :
          /\ (requests[r].status = "PENDING" /\ requests'[r].status = "APPROVED")
                => users'[requests[r].user_id].role = "ADMIN"
          /\ (\E p \in Procs : rq[p].op = "approve" /\ rq[p].target = r
                                 /\ pc[p] = "commit" /\ pc'[p] = "audit")
                => requests'[r].status = "APPROVED"]_vars

\* C7: with the admin-request operations run one at a time, a user has at most
\* one PENDING request, and a request call made while one exists is answered
\* with an error and adds no row.
C7_OnePending ==
    /\ \A u \in DOMAIN users : Cardinality(PendingOf(u)) <= 1
    /\ \A p \in Procs :
          (rq[p].op = "request" /\ pc[p] \in {"commit", "audit"})
              => PendingOf(rq[p].actor) \subseteq {rq[p].res}

C7_Witness ==
    \E p \in Procs :
        /\ pc[p] = "done" /\ rq[p].op = "request" /\ rq[p].result = "400"
        /\ \E r \in DOMAIN requests : requests[r].status = "PENDING"

\* C8: a request call that has passed its check inserts its PENDING row when it
\* commits, however many PENDING rows the user has by then: the store refuses
\* nothing.
C8_CheckedRequestInserts ==
    [][\A p \in Procs :
          (pc[p] = "commit" /\ rq[p].op = "request" /\ pc'[p] # "commit" /\ faults' = faults)
              => /\ pc'[p] = "audit"
                 /\ rq'[p].res \notin DOMAIN requests
                 /\ PendingOf(rq[p].actor)' = PendingOf(rq[p].actor) \cup {rq'[p].res}]_vars

C8_Witness == \E u \in DOMAIN users : Cardinality(PendingOf(u)) = 2

SessionLive(t) == sessions[t].is_valid /\ sessions[t].expires_at >= now

\* C9 as stated: a token returned by login resolves to the same user in every
\* state where its session is still valid and not expired.
C9_LiveSessionResolves ==
    \A t \in DOMAIN issued :
        SessionLive(t) =>
            /\ SessionCheck("bearer", t) = "ok"
            /\ UserCheck(Principal(t)) = "ok"
            /\ Principal(t) = issued[t]

\* C9 amended: a token returned by login resolves to the same user in every
\* state where its session is still valid and not expired and the user is
\* active and not locked.
C9_LiveSessionResolvesUnlessLocked ==
    \A t \in DOMAIN issued :
        (SessionLive(t) /\ users[issued[t]].is_active /\ ~users[issued[t]].is_locked) =>
            /\ SessionCheck("bearer", t) = "ok"
            /\ UserCheck(Principal(t)) = "ok"
            /\ Principal(t) = issued[t]

C9_Witness ==
    \E t \in DOMAIN issued :
        /\ t > Cardinality(DOMAIN users)
        /\ now = sessions[t].expires_at
        /\ SessionLive(t)
        /\ Resolve("bearer", t, UserRole) = "ok"

\* C10: a token whose logout has committed is refused with 401 in every later
\* state; no operation makes it valid again.
C10_LoggedOutIsRefused ==
    \A t \in loggedOut : Resolve("bearer", t, UserRole) = "401"

C10_Witness ==
    \E t \in loggedOut :
        /\ sessions[t].expires_at >= now
        /\ \E t2 \in DOMAIN issued : t2 > t /\ sessions[t2].user_id = sessions[t].user_id
        /\ \E p \in Procs : pc[p] = "done" /\ rq[p].op = "me" /\ rq[p].target = t
                             /\ rq[p].result = "401"

\* The guard step of request p: get_current_user and the role dependency run
\* and the request does not stop at the await.
GuardStep(p) == pc[p] = "auth" /\ pc'[p] # "auth" /\ faults' = faults

Refused(p, code) == pc'[p] = "done" /\ rq'[p].result = code

\* C11: while an account is locked (or inactive), every request whose guard runs
\* with a session of that user that is still valid and unexpired is refused with
\* 403.
C11_LockedIsForbidden ==
    [][\A p \in Procs :
          (/\ GuardStep(p)
           /\ rq[p].hdr = "bearer" /\ rq[p].token \in DOMAIN sessions
           /\ SessionLive(rq[p].token)
           /\ \/ users[sessions[rq[p].token].user_id].is_locked
              \/ ~users[sessions[rq[p].token].user_id].is_active)
              => Refused(p, "403")]_vars

C11_Witness ==
    \E p \in Procs :
        /\ pc[p] = "done" /\ rq[p].op = "me" /\ rq[p].result = "403"
        /\ rq[p].target \in DOMAIN sessions
        /\ rq[p].target > Cardinality(DOMAIN users)
        /\ SessionLive(rq[p].target)
        /\ users[sessions[rq[p].target].user_id].is_locked

\* The guard hands user u to the route of request p.
PrincipalReturned(p, u) ==
    IF rq[p].op = "me" THEN pc'[p] = "done" /\ rq'[p].result = "ok" /\ rq'[p].res = u
    ELSE pc'[p] # "done" /\ rq'[p].actor = u

\* C12: the guard answers 401 exactly when the header is missing or not a Bearer
\* header, the token matches no session, the session is invalidated or its
\* expires_at is before now; otherwise 403 exactly when the owning user is
\* inactive or locked; otherwise it returns the owning user (to the route's role
\* dependency, which may still refuse the role).
C12_ResolveTaxonomy ==
    [][\A p \in Procs :
          GuardStep(p) =>
             LET t == rq[p].token IN
             IF \/ rq[p].hdr # "bearer"
                \/ t \notin DOMAIN sessions
                \/ ~sessions[t].is_valid
                \/ sessions[t].expires_at < now
             THEN Refused(p, "401")
             ELSE LET u == sessions[t].user_id IN
                  IF ~users[u].is_active \/ users[u].is_locked
                  THEN Refused(p, "403")
                  ELSE IF users[u].role \in RequiredRoles(rq[p].op)
                       THEN PrincipalReturned(p, u)
                       ELSE Refused(p, "403")]_vars

C12_Witness ==
    \E p \in Procs :
        /\ pc[p] = "done" /\ rq[p].op = "logout" /\ rq[p].result = "401"
        /\ rq[p].target \in DOMAIN sessions
        /\ ~sessions[rq[p].target].is_valid
        /\ users[sessions[rq[p].target].user_id].is_locked
        /\ ~users[sessions[rq[p].target].user_id].is_active
        /\ faults = 0

\* C13 as stated: a logout request made with a token that is already
\* invalidated, or that matches no session, is answered without error.
C13_LogoutNeverRefused ==
    \A p \in Procs :
        (/\ pc[p] = "done" /\ rq[p].op = "logout" /\ faults = 0
         /\ \/ rq[p].target \notin DOMAIN sessions
            \/ ~sessions[rq[p].target].is_valid)
            => rq[p].result = "ok"

\* C13 amended: the invalidation done by logout_user never raises and is
\* idempotent: a logout that passed the guard completes also when its session
\* was invalidated meanwhile, and leaves the sessions as one invalidation does
\* (is_valid of that one session false, nothing else changed); a logout request
\* whose token is already invalidated or unknown is refused with 401 by the
\* guard and changes no session.
C13_InvalidateIdempotent ==
    [][\A p \in Procs :
          /\ (/\ pc[p] = "commit" /\ rq[p].op = "logout"
              /\ pc'[p] # "commit" /\ faults' = faults)
                => /\ pc'[p] = "audit"
                   /\ sessions' = [sessions EXCEPT ![rq[p].token].is_valid = FALSE]
                   /\ ~sessions[rq[p].token].is_valid => sessions' = sessions
          /\ (/\ GuardStep(p) /\ rq[p].op = "logout" /\ rq[p].hdr = "bearer"
              /\ \/ rq[p].token \notin DOMAIN sessions
                 \/ ~sessions[rq[p].token].is_valid)
                => Refused(p, "401") /\ sessions' = sessions]_vars

C13_Witness ==
    \E p, q \in Procs :
        /\ p # q
        /\ pc[p] = "audit" /\ rq[p].op = "logout"
        /\ pc[q] = "audit" /\ rq[q].op = "logout"
        /\ rq[p].token = rq[q].token
        /\ \E t \in DOMAIN sessions :
              /\ t # rq[p].token
              /\ sessions[t].user_id = sessions[rq[p].token].user_id
              /\ sessions[t].is_valid

ReportMutations == {"set_status", "set_priority", "set_notes", "soft_delete"}
SuperAdminOps == {"approve", "reject", "revoke", "lock", "unlock"}

\* Request p commits its business mutation in this step.
CommitStep(p) == pc[p] = "commit" /\ pc'[p] = "audit"

\* C14: a report's status, priority, notes and deletion change only in the
\* commit of a request whose principal resolved as ADMIN or SUPER_ADMIN; admin
\* requests are resolved and roles and locks changed only in the commit of a
\* request whose principal resolved as SUPER_ADMIN; and a principal whose role
\* is outside the set the route requires is refused with 403.
C14_RoleGuard ==
    [][/\ \A r \in DOMAIN reports :
             reports'[r] # reports[r] =>
                \E p \in Procs : /\ CommitStep(p) /\ rq[p].op \in ReportMutations
                                 /\ rq[p].target = r
                                 /\ rq[p].arole \in {"ADMIN", "SUPER_ADMIN"}
       /\ \A r \in DOMAIN requests :
             requests'[r] # requests[r] =>
                \E p \in Procs : /\ CommitStep(p) /\ rq[p].op \in {"approve", "reject"}
                                 /\ rq[p].target = r
                                 /\ rq[p].arole = "SUPER_ADMIN"
       /\ \A u \in DOMAIN users :
             users'[u] # users[u] =>
                \E p \in Procs : /\ CommitStep(p) /\ rq[p].op \in SuperAdminOps
                                 /\ rq[p].arole = "SUPER_ADMIN"
       /\ \A p \in Procs :
             (GuardStep(p) /\ rq[p].hdr = "bearer" /\ rq[p].token \in DOMAIN sessions) =>
                LET u == sessions[rq[p].token].user_id IN
                /\ pc'[p] # "done" => rq'[p].arole = users[u].role
                /\ (rq[p].op \in ReportMutations /\ users[u].role \notin {"ADMIN", "SUPER_ADMIN"})
                      => (Refused(p, "403") \/ Refused(p, "401"))
                /\ (rq[p].op \in SuperAdminOps /\ users[u].role # "SUPER_ADMIN")
                      => (Refused(p, "403") \/ Refused(p, "401"))
                /\ (/\ SessionLive(rq[p].token) /\ users[u].is_active /\ ~users[u].is_locked
                    /\ \/ rq[p].op \in ReportMutations /\ users[u].role \notin {"ADMIN", "SUPER_ADMIN"}
                       \/ rq[p].op \in SuperAdminOps /\ users[u].role # "SUPER_ADMIN")
                      => Refused(p, "403")]_vars

C14_Witness ==
    \E p \in Procs :
        /\ pc[p] = "done" /\ rq[p].op = "set_status" /\ rq[p].result = "403"
        /\ \A u \in DOMAIN users : users[u].is_active /\ ~users[u].is_locked
        /\ \A t \in DOMAIN sessions : SessionLive(t)
        /\ \E q \in DOMAIN reports : reports[q].priority = "HIGH"

\* C15: a request answered 401 or 403 has written nothing: the step that refuses
\* it leaves every table unchanged, it is not a request that had already
\* committed, and the tables change only in a request's commit or in the audit
\* write that follows it.
C15_RefusedChangesNothing ==
    [][/\ \A p \in Procs :
             (pc[p] # "done" /\ pc'[p] = "done" /\ rq'[p].result \in {"401", "403"})
                => db' = db /\ pc[p] # "audit"
       /\ db' # db => \E p \in Procs : CommitStep(p) \/ (pc[p] = "audit" /\ pc'[p] = "done")]_vars

C15_Witness ==
    \E p \in Procs :
        /\ pc[p] = "done" /\ rq[p].op = "approve" /\ rq[p].result = "403"
        /\ \A r \in DOMAIN requests : requests[r].user_id = 2 => requests[r].status = "PENDING"
        /\ audit \in {AccessAudit("USER"), AccessAudit("ADMIN")}
        /\ faults = 0

CreationRows(r) == SelectSeq(HistoryOf(r), LAMBDA h : h.old_status = Null)

\* C16: every report has exactly one creation row in its history (old_status
\* NULL, new_status NEW, changed_by the creator), which is its first row, and
\* every history row belongs to a report; the commit of create_report yields a
\* report with status NEW.
C16_CreateIsAtomic ==
    /\ [](/\ \A r \in DOMAIN reports :
               /\ Len(CreationRows(r)) = 1
               /\ HistoryOf(r)[1] = HistoryRow(r, Null, "NEW", reports[r].user_id)
          /\ \A k \in 1..Len(history) : history[k].report_id \in DOMAIN reports)
    /\ [][\A p \in Procs :
             (CommitStep(p) /\ rq[p].op = "create_report")
                => /\ rq'[p].res \in DOMAIN reports' \ DOMAIN reports
                   /\ reports'[rq'[p].res].status = "NEW"
                   /\ reports'[rq'[p].res].user_id = rq[p].actor]_vars

C16_Witness ==
    \E p, q \in Procs :
        /\ pc[p] = "done" /\ rq[p].op = "create_report" /\ rq[p].result = "500"
        /\ pc[q] = "audit" /\ rq[q].op = "create_report"
        /\ rq[q].res \in DOMAIN reports
        /\ Len(HistoryOf(rq[q].res)) = 1

\* C17: on a report whose soft deletion has committed, a lookup by a mutating
\* request is answered 404, and no step changes its status, priority or admin
\* notes or adds a history row to it.
C17_DeletedIsFrozen ==
    [][/\ \A p \in Procs :
             (/\ pc[p] = "load_report" /\ pc'[p] # "load_report" /\ faults' = faults
              /\ rq[p].op \in ReportMutations
              /\ rq[p].target \in DOMAIN reports /\ reports[rq[p].target].is_deleted)
                => Refused(p, "404")
       /\ \A r \in DOMAIN reports :
             reports[r].is_deleted =>
                /\ reports'[r].status = reports[r].status
                /\ reports'[r].priority = reports[r].priority
                /\ reports'[r].admin_notes = reports[r].admin_notes
                /\ HistoryOf(r)' = HistoryOf(r)]_vars

\* C18: soft_delete commits at most once per report: a deleted report stays
\* deleted with the deleted_at it got, no soft_delete commits on it again, it has
\* at most one REPORT_DELETED audit row, and a lookup of it by a delete request
\* is answered 404.
C18_DeleteOnce ==
    /\ [](\A r \in DOMAIN reports : Cardinality(AuditRows("REPORT_DELETED", r)) <= 1)
    /\ [][/\ \A r \in DOMAIN reports :
                reports[r].is_deleted =>
                   /\ reports'[r].is_deleted
                   /\ reports'[r].deleted_at = reports[r].deleted_at
          /\ \A p \in Procs :
                /\ (CommitStep(p) /\ rq[p].op = "soft_delete")
                      => ~reports[rq[p].target].is_deleted
                /\ (/\ pc[p] = "load_report" /\ pc'[p] # "load_report" /\ faults' = faults
                    /\ rq[p].op = "soft_delete"
                    /\ rq[p].target \in DOMAIN reports /\ reports[rq[p].target].is_deleted)
                      => Refused(p, "404")]_vars

\* C19: once a report is soft-deleted, reading it by id is answered 404, its
\* history rows stay as they are, and a history query for that report id by a
\* principal allowed to read it is not answered 404.
C19_HistoryOfDeletedReadable ==
    [][/\ \A r \in DOMAIN reports :
             reports[r].is_deleted =>
                \A k \in 1..Len(HistoryOf(r)) :
                    k <= Len(HistoryOf(r)') /\ HistoryOf(r)'[k] = HistoryOf(r)[k]
       /\ \A p \in Procs :
             (/\ pc[p] = "load_report" /\ pc'[p] # "load_report" /\ faults' = faults
              /\ rq[p].target \in DOMAIN reports /\ reports[rq[p].target].is_deleted
              /\ ReadAccess(rq[p].arole, rq[p].actor, reports[rq[p].target].user_id) = "ok")
                => /\ rq[p].op = "read" => Refused(p, "404")
                   /\ rq[p].op = "history" => ~Refused(p, "404")]_vars

\* A step of a read request (report by id, or its history) past the guard.
ReadStep(p) ==
    /\ rq[p].op \in {"read", "history"}
    /\ pc[p] \in {"load_report", "select"} /\ pc'[p] # pc[p] /\ faults' = faults

\* C20: a read of a report by id, or of its history, is answered 200 only to the
\* report's owner or to an ADMIN or SUPER_ADMIN; a USER who reads a non-deleted
\* report of another user is answered 403, and a refused read carries no data.
C20_ReadAccess ==
    [][\A p \in Procs :
          ReadStep(p) =>
             LET r == rq[p].target IN
             /\ (pc'[p] = "done" /\ rq'[p].result = "ok")
                   => \/ rq[p].arole \in {"ADMIN", "SUPER_ADMIN"}
                      \/ reports[r].user_id = rq[p].actor
             /\ (pc'[p] = "done" /\ rq'[p].result # "ok") => rq'[p].body = <<>>
             /\ (/\ r \in DOMAIN reports /\ ~reports[r].is_deleted
                 /\ rq[p].arole = "USER" /\ reports[r].user_id # rq[p].actor)
                   => \/ Refused(p, "403")
                      \/ rq[p].op = "read" /\ pc[p] = "load_report" /\ pc'[p] = "select"]_vars

C20_Witness ==
    \E p \in Procs :
        /\ pc[p] = "done" /\ rq[p].op = "read" /\ rq[p].result = "403"
        /\ rq[p].target \in DOMAIN reports /\ ~reports[rq[p].target].is_deleted
        /\ \A u \in DOMAIN users : users[u].is_active /\ ~users[u].is_locked
        /\ faults = 0

\* C21: a refused read does not tell whether the report exists: a USER who reads
\* by id a report that is not theirs gets the answer given for another user's
\* existing report (403, see C20) also when the id names a soft-deleted report
\* or no report at all.
C21_RefusalHidesExistence ==
    [][\A p \in Procs :
          (/\ ReadStep(p) /\ rq[p].op = "read" /\ pc'[p] = "done"
           /\ rq[p].arole = "USER"
           /\ ~(rq[p].target \in DOMAIN reports /\ reports[rq[p].target].user_id = rq[p].actor))
             => rq'[p].result = "403"]_vars

\* The columns of a report that the owner's view is built from.
OwnerView(r) ==
    << <<"status", reports[r].status>>, <<"priority", reports[r].priority>>,
       <<"updated_at", reports[r].updated_at>> >>

\* C22: the answer to a read by id sent to the report's owner with role USER is
\* a function of the report's columns other than admin_notes, so two stores that
\* differ only in admin_notes give the owner the same answer; the answer sent to
\* an ADMIN or SUPER_ADMIN carries the notes.
C22_NotesHiddenFromOwner ==
    [][\A p \in Procs :
          (/\ ReadStep(p) /\ rq[p].op = "read"
           /\ pc'[p] = "done" /\ rq'[p].result = "ok")
             => LET r == rq[p].target IN
                IF rq[p].arole = "USER"
                THEN rq'[p].body = OwnerView(r)
                ELSE rq'[p].body = OwnerView(r) \o << <<"admin_notes", reports[r].admin_notes>> >>]_vars

C22_Witness ==
    \E p \in Procs :
        /\ pc[p] = "done" /\ rq[p].op = "read" /\ rq[p].result = "ok"
        /\ reports[rq[p].target].admin_notes # Null
        /\ \A k \in 1..Len(rq[p].body) : rq[p].body[k][1] # "admin_notes"

\* C23: the SUPER_ADMIN role is immune to lockout: no user with role
\* SUPER_ADMIN has is_locked = TRUE in any reachable state, and a lock whose
\* target has role SUPER_ADMIN when it is looked up is answered 400 and changes
\* no is_locked.
C23_SuperAdminNeverLocked ==
    /\ [](\A u \in DOMAIN users : users[u].role = "SUPER_ADMIN" => ~users[u].is_locked)
    /\ [][\A p \in Procs :
            (/\ pc[p] = "load_user" /\ pc'[p] # pc[p] /\ faults' = faults
             /\ rq[p].op = "lock" /\ rq[p].target \in DOMAIN users
             /\ users[rq[p].target].role = "SUPER_ADMIN")
               => Refused(p, "400") /\ users' = users]_vars

\* A step of the handler in slot p from the statement at label.
HandlerStep(p, op, label) ==
    /\ rq[p].op = op /\ pc[p] = label /\ pc'[p] # pc[p] /\ faults' = faults

\* C24: revoke on an existing user whose role is ADMIN sets that role to USER and
\* changes no other user; on an unknown user id it is answered 404; on a user
\* whose role is USER or SUPER_ADMIN it is answered 400, changes no role and
\* writes no audit row.
C24_Revoke ==
    [][\A p \in Procs :
          LET u == rq[p].target IN
          /\ HandlerStep(p, "revoke", "load_user") =>
                IF u \notin DOMAIN users THEN Refused(p, "404") /\ UNCHANGED db
                ELSE IF users[u].role = "ADMIN" THEN pc'[p] = "commit" /\ UNCHANGED db
                ELSE Refused(p, "400") /\ UNCHANGED db
          /\ HandlerStep(p, "revoke", "commit") =>
                /\ users' = [users EXCEPT ![u].role = "USER"]
                /\ pc'[p] = "audit"]_vars

C24_Witness ==
    \E p \in Procs :
        /\ pc[p] = "done" /\ rq[p].op = "revoke" /\ rq[p].result = "ok"
        /\ users[rq[p].target].role = "USER"
        /\ AuditRows("ADMIN_REVOKED", rq[p].target) # {}
        /\ AuditRows("ADMIN_APPROVED", 1) # {}

\* C25: a lock or unlock that would change nothing never succeeds: when a lock
\* commits the account is not locked, and when an unlock commits it is locked,
\* so the successful locks and unlocks of one user alternate, also when the
\* calls are in flight together; a refused call changes nothing.
C25_NoNoOpLock ==
    [][\A p \in Procs :
          LET u == rq[p].target IN
          /\ HandlerStep(p, "lock", "commit") => ~users[u].is_locked /\ users'[u].is_locked
          /\ HandlerStep(p, "unlock", "commit") => users[u].is_locked /\ ~users'[u].is_locked
          /\ (rq[p].op \in {"lock", "unlock"} /\ pc[p] = "load_user" /\ pc'[p] = "done")
                => UNCHANGED db]_vars

\* C26: reject changes only the request it resolves (status REJECTED, resolver,
\* resolution time): no step of a reject changes the role, is_locked or
\* is_active of any user, nor any session, report or history row.
C26_RejectFrame ==
    [][\A p \in Procs :
          (rq[p].op = "reject" /\ pc'[p] # pc[p]) =>
             /\ UNCHANGED <<users, sessions, reports, history>>
             /\ IF pc[p] = "commit" /\ pc'[p] = "audit"
                THEN requests' = [requests EXCEPT ![rq[p].target] =
                                     [@ EXCEPT !.status = "REJECTED", !.approved_by = rq[p].actor,
                                               !.resolved_at = now]]
                ELSE requests' = requests]_vars

C26_Witness ==
    \E p \in Procs :
        /\ pc[p] = "done" /\ rq[p].op = "reject" /\ rq[p].result = "ok"
        /\ requests[rq[p].target].status = "REJECTED"
        /\ requests[rq[p].target].approved_by = 1
        /\ AuditRows("ADMIN_REJECTED", rq[p].target) # {}

\* C27: a request for the ADMIN role made by a user whose role is ADMIN or
\* SUPER_ADMIN is answered 403 and changes nothing, so an admin request is
\* inserted only while its requester's role is USER.
C27_RequestOnlyByUser ==
    [][\A p \in Procs :
          LET u == rq[p].actor IN
          /\ (HandlerStep(p, "request", "check") /\ users[u].role \in {"ADMIN", "SUPER_ADMIN"})
                => Refused(p, "403") /\ UNCHANGED db
          /\ (HandlerStep(p, "request", "commit") /\ requests' # requests)
                => users[u].role = "USER"]_vars

\* The calls of the admin elevation workflow and the audit event named for each.
ElevationEvents ==
    [request |-> "ADMIN_REQUESTED", approve |-> "ADMIN_APPROVED", reject |-> "ADMIN_REJECTED",
     revoke |-> "ADMIN_REVOKED", lock |-> "USER_LOCKED", unlock |-> "USER_UNLOCKED"]

\* C28: a call of request, approve, reject, revoke, lock or unlock that succeeds
\* has appended exactly one audit row, named for the call and with the caller as
\* actor, and appended it as its last step; no other step of such a call, and so
\* no call that fails, changes the audit table.
C28_OneAuditRowPerCall ==
    [][\A p \in Procs :
          (rq[p].op \in DOMAIN ElevationEvents /\ pc'[p] # pc[p]) =>
             IF pc'[p] = "done" /\ rq'[p].result = "ok"
             THEN /\ pc[p] = "audit"
                  /\ Len(audit') = Len(audit) + 1
                  /\ SubSeq(audit', 1, Len(audit)) = audit
                  /\ audit'[Len(audit')].action = ElevationEvents[rq[p].op]
                  /\ audit'[Len(audit')].actor_id = sessions[rq[p].token].user_id
             ELSE audit' = audit]_vars

C28_Witness ==
    \E p \in Procs :
        /\ pc[p] = "done" /\ rq[p].op = "unlock" /\ rq[p].result = "ok"
        /\ audit[Len(audit)] = AuditRow(1, "USER_UNLOCKED", rq[p].target)
        /\ ~users[rq[p].target].is_locked

\* The error kind a response status stands for.
ErrorKind(code) ==
    CASE code = "400" -> "BadRequest"
      [] code = "401" -> "Unauthenticated"
      [] code = "403" -> "Forbidden"
      [] code = "404" -> "NotFound"
      [] code = "409" -> "Conflict"
      [] OTHER -> "Internal"

\* C29: the four avoidable precondition failures of the admin elevation workflow
\* are answered with the error kind Conflict: a request while the caller has a
\* PENDING request, approve or reject of a resolved request, lock of a locked and
\* unlock of an unlocked account, revoke of a user whose role is not ADMIN.
C29_ConflictKind ==
    [][\A p \in Procs :
          LET t == rq[p].target IN
          ( \/ /\ HandlerStep(p, "request", "check")
               /\ users[rq[p].actor].role = "USER" /\ PendingOf(rq[p].actor) # {}
            \/ /\ HandlerStep(p, "approve", "load_req") \/ HandlerStep(p, "reject", "load_req")
               /\ t \in DOMAIN requests /\ requests[t].status # "PENDING"
            \/ /\ HandlerStep(p, "lock", "load_user")
               /\ t \in DOMAIN users /\ users[t].role # "SUPER_ADMIN" /\ users[t].is_locked
            \/ /\ HandlerStep(p, "unlock", "load_user")
               /\ t \in DOMAIN users /\ ~users[t].is_locked
            \/ /\ HandlerStep(p, "revoke", "load_user")
               /\ t \in DOMAIN users /\ users[t].role # "ADMIN" )
             => pc'[p] = "done" /\ ErrorKind(rq'[p].result) = "Conflict"]_vars

IsPrefix(s, t) == Len(s) <= Len(t) /\ SubSeq(t, 1, Len(s)) = s

\* C30: audit_logs and report_status_history are append-only: every step leaves
\* the rows already written in place, with their content and in their order, and
\* can only add rows after them.
C30_LedgersAppendOnly ==
    [][IsPrefix(audit, audit') /\ IsPrefix(history, history')]_vars

C30_Witness ==
    /\ \E r \in DOMAIN reports : reports[r].is_deleted /\ Len(HistoryOf(r)) >= 2
    /\ \E i \in 1..Len(audit) : audit[i].action = "REPORT_DELETED"
    /\ \E i \in 1..Len(audit) : audit[i].action = "REPORT_STATUS_CHANGED"

\* C31: the role of an existing user is changed only by approve (to ADMIN) and
\* by revoke (to USER); every other step of every operation, the seed script
\* included, leaves every role as it is, and no user row is ever removed.
C31_RoleChangedOnlyByElevation ==
    [][\A u \in DOMAIN users :
          /\ u \in DOMAIN users'
          /\ users'[u].role # users[u].role =>
                \E p \in Procs :
                   \/ HandlerStep(p, "approve", "commit") /\ users'[u].role = "ADMIN"
                   \/ HandlerStep(p, "revoke", "commit") /\ users'[u].role = "USER"]_vars

\* The lower-case addresses among those the requests and the script use.
LowercaseEmails ==
    {"admin@example.com", "alice@x.com", "bob@x.com", "carol@x.com", "root@example.com"}

\* C32: every stored email is lower-case and no two users have the same email;
\* a registration whose address is stored already, up to letter case, is answered
\* 409 and creates nothing; a step of a registration that adds a user adds one
\* row with role USER, is_active and not is_locked, also with two registrations
\* of one address in flight.
C32_EmailsLowercaseUnique ==
    /\ [](\A u \in DOMAIN users :
             /\ users[u].email \in LowercaseEmails
             /\ \A v \in DOMAIN users : users[v].email = users[u].email => v = u)
    /\ [][\A p \in Procs :
            /\ (HandlerStep(p, "register", "check")
                  /\ \E u \in DOMAIN users : Lower(users[u].email) = Lower(rq[p].email))
                  => Refused(p, "409") /\ UNCHANGED db
            /\ (rq[p].op = "register" /\ pc'[p] # pc[p] /\ users' # users)
                  => \E id \in DOMAIN users' \ DOMAIN users :
                        /\ DOMAIN users' = DOMAIN users \cup {id}
                        /\ \A u \in DOMAIN users : users'[u] = users[u]
                        /\ users'[id].role = "USER"
                        /\ users'[id].is_active /\ ~users'[id].is_locked]_vars

C32_Witness ==
    /\ \E u \in DOMAIN users : users[u].email = "carol@x.com" /\ users[u].role = "USER"
    /\ \E p \in Procs : pc[p] = "done" /\ rq[p].op = "register" /\ rq[p].result = "500"
    /\ faults = 0

\* C33: a session row, once created, keeps its token, owner and expires_at; its
\* is_valid changes only from TRUE to FALSE and only when the logout of that
\* very token commits; so resolving a token, and logging out one session, leave
\* every other session of the user as it was.
C33_SessionFrame ==
    [][\A t \in DOMAIN sessions :
          /\ t \in DOMAIN sessions'
          /\ sessions'[t].user_id = sessions[t].user_id
          /\ sessions'[t].expires_at = sessions[t].expires_at
          /\ sessions'[t].is_valid # sessions[t].is_valid =>
                /\ sessions[t].is_valid /\ ~sessions'[t].is_valid
                /\ \E p \in Procs : HandlerStep(p, "logout", "commit") /\ rq[p].token = t]_vars

C33_Witness ==
    \E t1, t2 \in DOMAIN sessions :
        /\ t1 # t2 /\ sessions[t1].user_id = sessions[t2].user_id
        /\ ~sessions[t1].is_valid /\ t1 \in loggedOut
        /\ sessions[t2].is_valid /\ sessions[t2].expires_at < now

\* C34: set_status accepts every target status from every current status, the
\* same status and the transitions out of CLOSED included: the call is not
\* refused, its commit sets the status to the target and appends the history
\* row (old, new), and it ends with one REPORT_STATUS_CHANGED audit row.
C34_AnyStatusAccepted ==
    [][\A p \in Procs :
          LET r == rq[p].target IN
          /\ (HandlerStep(p, "set_status", "load_report") /\ ReportVisible(r))
                => pc'[p] = "commit"
          /\ HandlerStep(p, "set_status", "commit") =>
                /\ reports'[r].status = rq[p].val
                /\ history' = Append(history, [report_id |-> r, old_status |-> reports[r].status,
                                               new_status |-> rq[p].val, changed_by |-> rq[p].actor])
                /\ pc'[p] = "audit"
          /\ HandlerStep(p, "set_status", "audit") =>
                /\ audit' = Append(audit, [actor_id |-> rq[p].actor,
                                           action |-> "REPORT_STATUS_CHANGED", resource_id |-> r])
                /\ Refused(p, "ok")]_vars

C34_Witness ==
    /\ \E i \in 1..Len(history) : history[i].old_status = "CLOSED" /\ history[i].new_status = "CLOSED"
    /\ \E i \in 1..Len(history) : history[i].old_status = "CLOSED" /\ history[i].new_status = "NEW"
    /\ reports[1].status = "NEW"
    /\ Cardinality(AuditRows("REPORT_STATUS_CHANGED", 1)) = MaxAudit
    /\ \E p \in Procs : pc[p] = "done" /\ rq[p].result = "ok"

\* The columns of a report other than updated_at.
ReportColumns == {"user_id", "status", "priority", "admin_notes", "is_deleted", "deleted_at"}

\* C35: set_priority and set_notes change one column of the report (priority,
\* respectively admin_notes) besides updated_at and append one audit row: the
\* commit leaves every other column, every other report and the status history
\* as they were, and no other step of the call changes the store.
C35_SingleFieldMutation ==
    [][\A p \in Procs :
          (rq[p].op \in {"set_priority", "set_notes"} /\ pc'[p] # pc[p]) =>
             LET r == rq[p].target
                 field == IF rq[p].op = "set_priority" THEN "priority" ELSE "admin_notes" IN
             /\ UNCHANGED <<users, sessions, requests, history>>
             /\ IF pc[p] = "commit" /\ pc'[p] = "audit"
                THEN /\ DOMAIN reports' = DOMAIN reports
                     /\ \A x \in DOMAIN reports, c \in ReportColumns :
                           reports'[x][c] # reports[x][c] => x = r /\ c = field
                     /\ reports'[r][field] = rq[p].val
                     /\ audit' = audit
                ELSE reports' = reports
             /\ IF pc[p] = "audit" /\ pc'[p] = "done" /\ rq'[p].result = "ok"
                THEN audit' = Append(audit, [actor_id |-> rq[p].actor, resource_id |-> r,
                                             action |-> IF rq[p].op = "set_priority"
                                                        THEN "REPORT_PRIORITY_CHANGED"
                                                        ELSE "REPORT_NOTES_UPDATED"])
                ELSE audit' = audit]_vars

C35_Witness ==
    /\ \E p \in Procs : pc[p] = "done" /\ rq[p].op = "set_notes" /\ rq[p].result = "ok"
    /\ reports[1].admin_notes = "seen" /\ reports[1].priority = "HIGH"
    /\ reports[1].status = "NEW" /\ ~reports[1].is_deleted
    /\ Len(HistoryOf(1)) = 1
    /\ AuditRows("REPORT_NOTES_UPDATED", 1) # {} /\ AuditRows("REPORT_PRIORITY_CHANGED", 1) # {}

\* C36: a login inserts a session only for an existing user whose password
\* verifies and whose account is, when the session is created, active and not
\* locked; a login that is refused changes nothing; so no session is issued to
\* an account that is locked at the time of the login.
C36_LoginIssuesOnlyToOpenAccounts ==
    [][\A p \in Procs :
          /\ (HandlerStep(p, "login", "check") /\ pc'[p] = "done") => UNCHANGED db
          /\ (rq[p].op = "login" /\ pc'[p] # pc[p] /\ sessions' # sessions) =>
                \E u \in UserByEmail(Lower(rq[p].email)) :
                   /\ verify_password(rq[p].password, users[u].password_hash)
                   /\ users[u].is_active /\ ~users[u].is_locked
                   /\ \E t \in DOMAIN sessions' \ DOMAIN sessions : sessions'[t].user_id = u]_vars

\* C37: the admin-request-status query of a user who has admin requests, however
\* many and in whatever statuses, is answered 200 with has_request = true and the
\* user's most recently created request; that of a user with none is answered
\* 200 with has_request = false.
C37_RequestStatusQuery ==
    [][\A p \in Procs :
          HandlerStep(p, "request_status", "commit") =>
             LET mine == RequestsOf(rq[p].actor) IN
             /\ pc'[p] = "done" /\ rq'[p].result = "ok"
             /\ IF mine = {} THEN rq'[p].body[1] = <<"has_request", FALSE>>
                ELSE /\ rq'[p].body[1] = <<"has_request", TRUE>>
                     /\ \A r \in mine : r <= rq'[p].res
                     /\ rq'[p].res \in mine]_vars

\* C38: the status of every report is the new_status of the last status-history
\* row written for it, also after set_status calls of different administrators
\* have interleaved.
C38_StatusIsLastHistoryRow ==
    \A r \in DOMAIN reports :
        /\ HistoryOf(r) # <<>>
        /\ reports[r].status = HistoryOf(r)[Len(HistoryOf(r))].new_status

\* C39: no step of request, approve, reject, revoke, lock or unlock changes the
\* role of a user whose role is SUPER_ADMIN; in particular approve replaces no
\* role above ADMIN, so these operations never shrink the set of SUPER_ADMIN
\* users.
C39_SuperAdminKeepsRole ==
    [][\A p \in Procs :
          (rq[p].op \in DOMAIN ElevationEvents /\ pc'[p] # pc[p]) =>
             \A u \in DOMAIN users :
                users[u].role = "SUPER_ADMIN" => users'[u].role = "SUPER_ADMIN"]_vars

\* C40: a role change takes effect on the sessions that exist: the commit of a
\* revoke leaves the user with role USER and the commit of an approve leaves the
\* requester with role ADMIN, and the guard of every request started afterwards
\* tests the role stored at that time, whatever the age of the token: a live
\* token of a USER is refused 403 on an operation for administrators, that of an
\* ADMIN passes it.
C40_RoleChangeReachesSessions ==
    [][\A p \in Procs :
          /\ HandlerStep(p, "revoke", "commit") => users'[rq[p].target].role = "USER"
          /\ HandlerStep(p, "approve", "commit") =>
                users'[requests[rq[p].target].user_id].role = "ADMIN"
          /\ (/\ GuardStep(p) /\ rq[p].op \in ReportMutations /\ SessionLive(rq[p].token)
              /\ users[sessions[rq[p].token].user_id].is_active
              /\ ~users[sessions[rq[p].token].user_id].is_locked) =>
                IF users[sessions[rq[p].token].user_id].role = "USER"
                THEN Refused(p, "403")
                ELSE pc'[p] = "load_report"]_vars

=============================================================================
